---- MODULE Spec2Model ----
(***************************************************************************)
(* mbgl::FeatureIndex (src/src/mbgl/geometry/feature_index.cpp): the       *)
(* per-tile index of feature envelopes, its insert / setBucketLayerIDs /   *)
(* query operations and the per-layer resolution done by addFeature.       *)
(*                                                                         *)
(* Coordinates are int16_t tile units, sort indices are naturals.  A       *)
(* Feature of the result carries, besides the feature it was converted     *)
(* from, two history tags (sortIndex, from) that record which match of     *)
(* which stream produced it; the program's Feature does not hold them.     *)
(***************************************************************************)
EXTENDS Integers, Sequences, FiniteSets, TLC

VARIABLES
    tileData,        \* TRUE iff the unique_ptr tileData is non-null
    elements,        \* the grid's entries, in insertion order: [t, bbox]
    sortIndex,       \* FeatureIndex::sortIndex, the running counter
    bucketLayerIDs,  \* bucket name -> sequence of layer ids (registered only)
    ringsInserted,   \* history: total number of rings handed to insert
    lastInsert,      \* history: number of rings of the latest insert, -1 if none
    pc,              \* "idle", or "returned" right after a query
    args,            \* the arguments of the query that returned
    additionalRadius,\* query's local additionalRadius
    box,             \* the box query handed to grid.query
    result,          \* the caller's result mapping after the query
    threw,           \* TRUE iff the query ended in std::out_of_range
    resolved         \* history: the addFeature calls of the query, in order: [f, from]

vars == <<tileData, elements, sortIndex, bucketLayerIDs, ringsInserted,
          lastInsert, pc, args, additionalRadius, box, result, threw, resolved>>

(***************************************************************************)
(* Bounds of the model.                                                    *)
(***************************************************************************)
MaxRings == 3

(***************************************************************************)
(* Program constants and integer widths.                                   *)
(***************************************************************************)
EXTENT == 8192
CellCount == 16
CellSize == EXTENT \div CellCount
Int16Min == -(2^15)
Int16Max == 2^15 - 1
\* std::numeric_limits<size_t>::max(), here the largest integer TLC represents.
SizeMax == 2147483647

Point(px, py) == [x |-> px, y |-> py]

\* Narrowing an int to int16_t (two's complement, modulo 2^16).
Wrap16(v) == ((v - Int16Min) % (2^16)) + Int16Min

Min(a, b) == IF a < b THEN a ELSE b
Max(a, b) == IF a > b THEN a ELSE b

\* mapbox::geometry::envelope of a non-empty sequence of points.
envelope(ring) ==
    LET xs == {ring[i].x : i \in 1..Len(ring)}
        ys == {ring[i].y : i \in 1..Len(ring)}
        lo(S) == CHOOSE v \in S : \A w \in S : v <= w
        hi(S) == CHOOSE v \in S : \A w \in S : v >= w
    IN  [min |-> Point(lo(xs), lo(ys)), max |-> Point(hi(xs), hi(ys))]

IndexedSubfeature(index, sourceLayerName, bucketName, si) ==
    [index |-> index, sourceLayerName |-> sourceLayerName,
     bucketName |-> bucketName, sortIndex |-> si]

(***************************************************************************)
(* The bounded grid index: 16x16 cells over the tile extent.               *)
(***************************************************************************)
convertToCellCoord(v) == Max(0, Min(CellCount - 1, v \div CellSize))

\* The cells an entry with bounding box b was put into by GridIndex::insert.
cellsOf(b) ==
    (convertToCellCoord(b.min.x) .. convertToCellCoord(b.max.x))
        \X (convertToCellCoord(b.min.y) .. convertToCellCoord(b.max.y))

boxesIntersect(q, b) ==
    /\ q.min.x <= b.max.x
    /\ q.min.y <= b.max.y
    /\ q.max.x >= b.min.x
    /\ q.max.y >= b.min.y

\* GridIndex::query: the entries found in the cells the query box covers, each
\* once (seen uids), whose stored box intersects the query box.
RECURSIVE collect(_, _, _)
collect(els, uid, q) ==
    IF uid > Len(els) THEN <<>>
    ELSE LET e == els[uid]
             hit == /\ cellsOf(e.bbox) \cap cellsOf(q) # {}
                    /\ boxesIntersect(q, e.bbox)
         IN  (IF hit THEN <<e.t>> ELSE <<>>) \o collect(els, uid + 1, q)

gridQuery(els, q) == collect(els, 1, q)

(***************************************************************************)
(* insert                                                                  *)
(***************************************************************************)
\* insertedEntries with the counter read once for the whole call.
insertedEntriesOneIndex(geometries, index, sourceLayerName, bucketName, start) ==
    [i \in 1..Len(geometries) |->
        [t    |-> [index |-> index, sourceLayerName |-> sourceLayerName,
                   bucketName |-> bucketName, sortIndex |-> start],
         bbox |-> envelope(geometries[i])]]

\* The entries one insert call adds, the counter starting at `start`.
insertedEntries(geometries, index, sourceLayerName, bucketName, start) ==
    [i \in 1..Len(geometries) |->
        [t    |-> IndexedSubfeature(index, sourceLayerName, bucketName, start + (i - 1)),
         bbox |-> envelope(geometries[i])]]


Insert(geometries, index, sourceLayerName, bucketName) ==
    /\ pc = "idle"
    /\ Len(elements) + Len(geometries) <= MaxRings
    /\ elements' = elements \o
           insertedEntries(geometries, index, sourceLayerName, bucketName, sortIndex)
    /\ sortIndex' = sortIndex + Len(geometries)
    /\ ringsInserted' = ringsInserted + Len(geometries)
    /\ lastInsert' = Len(geometries)
    /\ UNCHANGED <<tileData, bucketLayerIDs, pc, args, additionalRadius, box,
                   result, threw, resolved>>

(***************************************************************************)
(* setBucketLayerIDs                                                       *)
(***************************************************************************)
SetBucketLayerIDs(bucketName, layerIDs) ==
    /\ pc = "idle"
    /\ bucketLayerIDs' =
           [b \in DOMAIN bucketLayerIDs \cup {bucketName} |->
               IF b = bucketName THEN layerIDs ELSE bucketLayerIDs[b]]
    /\ UNCHANGED <<tileData, elements, sortIndex, ringsInserted, lastInsert, pc,
                   args, additionalRadius, box, result, threw, resolved>>

(***************************************************************************)
(* query: the radius and the box                                           *)
(***************************************************************************)
\* const float pixelsToTileUnits = util::EXTENT / tileSize / scale; the model
\* draws tileSize and scale so that the quotient is a whole number.
pixelsToTileUnits(tileSize, scale) == (EXTENT \div tileSize) \div scale

\* The value additionalQueryRadius * pixelsToTileUnits, a float holding a
\* whole number for the inputs of the model.
radiusInTileUnits(q) == q.additionalQueryRadius * pixelsToTileUnits(q.tileSize, q.scale)

\* Converting a float to int16_t: the value itself when int16_t can hold it,
\* otherwise undefined behaviour; the builds give the low 16 bits of the 32-bit
\* conversion or a saturated value.
floatToInt16(v) ==
    IF Int16Min <= v /\ v <= Int16Max THEN {v}
    ELSE {Wrap16(v), IF v > 0 THEN Int16Max ELSE Int16Min}

\* std::min<int16_t>(util::EXTENT, x): both arguments are already int16_t.
minInt16(a, b) == IF b < a THEN b ELSE a

\* The values additionalRadius can take.
additionalRadiusOutcomes(q) ==
    {minInt16(Wrap16(EXTENT), r) : r \in floatToInt16(radiusInTileUnits(q))}

\* box.min - additionalRadius and box.max + additionalRadius on point<int16_t>.
expandedBox(queryGeometry, radius) ==
    LET b == envelope(queryGeometry)
    IN  [min |-> Point(Wrap16(b.min.x - radius), Wrap16(b.min.y - radius)),
         max |-> Point(Wrap16(b.max.x + radius), Wrap16(b.max.y + radius))]

(***************************************************************************)
(* query: sorting                                                          *)
(***************************************************************************)
\* topDown with the comparison turned around.
topDownAscending(a, b) == a.sortIndex < b.sortIndex

topDown(a, b) == a.sortIndex > b.sortIndex

topDownSymbols(a, b) == a.sortIndex < b.sortIndex

\* The arrangements of a sequence.
arrangements(s) ==
    {[i \in 1..Len(s) |-> s[p[i]]] : p \in Permutations(1..Len(s))}

\* std::sort(features.begin(), features.end(), topDown). std::sort is not stable:
\* any arrangement in which no element is topDown of one before it.
sortTopDown(features) ==
    {t \in arrangements(features) :
        \A i, j \in 1..Len(t) : i < j => ~topDown(t[j], t[i])}

\* std::sort(symbolFeatures.begin(), symbolFeatures.end(), topDownSymbols)
sortTopDownSymbols(symbolFeatures) ==
    {t \in arrangements(symbolFeatures) :
        \A i, j \in 1..Len(t) : i < j => ~topDownSymbols(t[j], t[i])}

(***************************************************************************)
(* addFeature                                                              *)
(***************************************************************************)
NullLayer == [id |-> "", symbol |-> FALSE]

\* getRenderLayer without the comparison of the ids.
getRenderLayerAny(layers, layerID) ==
    IF layers = <<>> THEN [id |-> "", symbol |-> FALSE] ELSE Head(layers)

RECURSIVE getRenderLayer(_, _)
getRenderLayer(layers, layerID) ==
    IF layers = <<>> THEN NullLayer
    ELSE IF Head(layers).id = layerID THEN Head(layers)
    ELSE getRenderLayer(Tail(layers), layerID)

\* A lookup that gives a missing key an empty list, as operator[] would.
bucketOrEmpty(bucketName) ==
    [found |-> TRUE,
     layerIDs |-> IF bucketName \in DOMAIN bucketLayerIDs
                  THEN bucketLayerIDs[bucketName] ELSE <<>>]

\* bucketLayerIDs.at(bucketName): throws std::out_of_range for a missing key.
bucketAt(bucketName) ==
    IF bucketName \in DOMAIN bucketLayerIDs
    THEN [found |-> TRUE, layerIDs |-> bucketLayerIDs[bucketName]]
    ELSE [found |-> FALSE, layerIDs |-> <<>>]

\* layerPasses with the intersection test applied to symbol layers too.
layerPassesAllTested(renderLayer, f, q) ==
    /\ f.index \in q.intersecting
    /\ ~q.filter.present \/ f.index \in q.filter.accepts

\* The two tests of one layer: the intersection test unless the layer is a symbol
\* layer, then the filter when there is one.
layerPasses(renderLayer, f, q) ==
    /\ renderLayer.symbol \/ f.index \in q.intersecting
    /\ ~q.filter.present \/ f.index \in q.filter.accepts

\* convertFeature, with the history tags of the match.
convertFeature(f, from) ==
    [index |-> f.index, sourceLayerName |-> f.sourceLayerName,
     sortIndex |-> f.sortIndex, from |-> from]

\* result[layerID].push_back(feature)
pushBack(res, layerID, feature) ==
    [k \in DOMAIN res \cup {layerID} |->
        IF k = layerID
        THEN (IF k \in DOMAIN res THEN Append(res[k], feature) ELSE <<feature>>)
        ELSE res[k]]

RECURSIVE forLayerIDs(_, _, _, _, _)
forLayerIDs(res, layerIDs, f, from, q) ==
    IF layerIDs = <<>> THEN res
    ELSE LET layerID == Head(layerIDs)
             renderLayer == getRenderLayer(q.layers, layerID)
             next == IF renderLayer = NullLayer THEN res
                     ELSE IF ~layerPasses(renderLayer, f, q) THEN res
                     ELSE pushBack(res, layerID, convertFeature(f, from))
         IN  forLayerIDs(next, Tail(layerIDs), f, from, q)

\* st is the progress of the query: [result, threw, resolved].
addFeature(st, f, from, q) ==
    LET log == Append(st.resolved, [f |-> f, from |-> from])
        bucket == bucketAt(f.bucketName)
    IN  IF ~bucket.found
        THEN [result |-> st.result, threw |-> TRUE, resolved |-> log]
        ELSE [result |-> forLayerIDs(st.result, bucket.layerIDs, f, from, q),
              threw |-> FALSE, resolved |-> log]

(***************************************************************************)
(* query: the two loops                                                    *)
(***************************************************************************)
\* The skip test with <= for ==.
sameOrBelowPrevious(f, previousSortIndex) == f.sortIndex <= previousSortIndex

\* if (indexedFeature.sortIndex == previousSortIndex) continue;
sameAsPrevious(f, previousSortIndex) == f.sortIndex = previousSortIndex

RECURSIVE gridLoop(_, _, _, _)
gridLoop(st, features, previousSortIndex, q) ==
    IF features = <<>> \/ st.threw THEN st
    ELSE LET f == Head(features)
         IN  IF sameAsPrevious(f, previousSortIndex)
             THEN gridLoop(st, Tail(features), previousSortIndex, q)
             ELSE gridLoop(addFeature(st, f, "grid", q), Tail(features), f.sortIndex, q)

\* The symbol loop with the grid loop's skip of equal sort indices added.
RECURSIVE symbolLoopSkipping(_, _, _, _)
symbolLoopSkipping(st, symbolFeatures, previousSortIndex, q) ==
    IF symbolFeatures = <<>> \/ st.threw THEN st
    ELSE LET f == Head(symbolFeatures)
         IN  IF f.sortIndex = previousSortIndex
             THEN symbolLoopSkipping(st, Tail(symbolFeatures), previousSortIndex, q)
             ELSE symbolLoopSkipping(addFeature(st, f, "symbol", q),
                                     Tail(symbolFeatures), f.sortIndex, q)

symbolLoopDeduplicating(st, symbolFeatures, q) ==
    symbolLoopSkipping(st, symbolFeatures, SizeMax, q)

RECURSIVE symbolLoop(_, _, _)
symbolLoop(st, symbolFeatures, q) ==
    IF symbolFeatures = <<>> \/ st.threw THEN st
    ELSE symbolLoop(addFeature(st, Head(symbolFeatures), "symbol", q),
                    Tail(symbolFeatures), q)

\* resolveAll with the symbol loop run before the grid loop.
resolveAllSymbolsFirst(q, features, symbolFeatures) ==
    gridLoop(symbolLoop([result |-> q.result0, threw |-> FALSE, resolved |-> <<>>],
                        symbolFeatures, q),
             features, SizeMax, q)

\* The body of query after the two sorts.
resolveAll(q, features, symbolFeatures) ==
    symbolLoop(gridLoop([result |-> q.result0, threw |-> FALSE, resolved |-> <<>>],
                        features, SizeMax, q),
               symbolFeatures, q)

\* The tile data check left out.
hasTileDataAlways == TRUE

\* if (!tileData) return;
hasTileData == tileData

NoBox == [min |-> Point(0, 0), max |-> Point(0, 0)]
NoMap == [k \in {} |-> <<>>]
NoArgs ==
    [queryGeometry |-> <<>>, tileSize |-> 0, scale |-> 0, layers |-> <<>>,
     filter |-> [present |-> FALSE, accepts |-> {}], intersecting |-> {},
     symbolFeatures |-> <<>>, additionalQueryRadius |-> 0, result0 |-> NoMap]

Query(q) ==
    /\ pc = "idle"
    /\ pc' = "returned"
    /\ args' = q
    /\ IF ~hasTileData
       THEN /\ result' = q.result0
            /\ threw' = FALSE
            /\ resolved' = <<>>
            /\ additionalRadius' = 0
            /\ box' = NoBox
       ELSE \E radius \in additionalRadiusOutcomes(q) :
                LET b == expandedBox(q.queryGeometry, radius)
                IN  \E features \in sortTopDown(gridQuery(elements, b)) :
                    \E symbolFeatures \in sortTopDownSymbols(q.symbolFeatures) :
                        LET st == resolveAll(q, features, symbolFeatures)
                        IN  /\ additionalRadius' = radius
                            /\ box' = b
                            /\ result' = st.result
                            /\ threw' = st.threw
                            /\ resolved' = st.resolved
    /\ UNCHANGED <<tileData, elements, sortIndex, bucketLayerIDs, ringsInserted,
                   lastInsert>>

\* The call is over: query's locals are gone and the caller has taken the result.
Return ==
    /\ pc = "returned"
    /\ pc' = "idle"
    /\ args' = NoArgs
    /\ additionalRadius' = 0
    /\ box' = NoBox
    /\ result' = NoMap
    /\ threw' = FALSE
    /\ resolved' = <<>>
    /\ UNCHANGED <<tileData, elements, sortIndex, bucketLayerIDs, ringsInserted,
                   lastInsert>>

(***************************************************************************)
(* The inputs the operations are called with.                              *)
(***************************************************************************)
ringA == <<Point(100, 100)>>
ringB == <<Point(400, 300), Point(1100, 300), Point(1100, 700)>>
ringC == <<Point(100, 100), Point(104, 108)>>

\* The decoded tile: one source layer, whose feature 0 is a point, feature 1 has
\* two rings (ringB spans several grid cells) and feature 2 has no geometry.
Ordinals == {0, 1, 2}
SourceLayers == {"sl"}
geometryOf(index) ==
    CASE index = 0 -> <<ringA>>
      [] index = 1 -> <<ringC, ringB>>
      [] OTHER     -> <<>>
Buckets == {"b1", "b2"}
\* L3 is a layer that was removed from the style: it is never among the active layers.
LayerIDLists == {<<"L1", "L2", "L3">>, <<"L2">>}

\* A small box around (100, 100).
QueryGeometries ==
    {<<Point(90, 90), Point(110, 90), Point(110, 110), Point(90, 110)>>}
TileSizes == {512}
Scales == {1}
\* In tile units: 0, 9600 (above EXTENT) and 40000 (above what int16_t holds).
Radii == {0, 600, 2500}

\* L1 is a fill layer, L2 a symbol layer.
LayerSets ==
    {<<>>,
     <<[id |-> "L1", symbol |-> FALSE]>>,
     <<[id |-> "L2", symbol |-> TRUE]>>,
     <<[id |-> "L1", symbol |-> FALSE], [id |-> "L2", symbol |-> TRUE]>>}
Filters == {[present |-> FALSE, accepts |-> {}], [present |-> TRUE, accepts |-> {0}]}
\* The features queryIntersectsFeature accepts for the query geometry.
Intersecting == {{0, 1}, {1}}

\* What collisionIndex.queryRenderedSymbols returns.
SymbolResults ==
    {<<>>,
     <<IndexedSubfeature(1, "sl", "b2", 2), IndexedSubfeature(0, "sl", "b2", 0),
       IndexedSubfeature(1, "sl", "b1", 1)>>,
     <<IndexedSubfeature(0, "sl", "b2", 0), IndexedSubfeature(0, "sl", "b2", 0)>>}

\* The mapping the caller passes in: empty, or holding a Feature of another tile.
PriorFeature == [index |-> 0, sourceLayerName |-> "sl", sortIndex |-> 0, from |-> "prior"]
ResultInputs == {NoMap, [k \in {"L1"} |-> <<PriorFeature>>]}

QueryInputs ==
    [queryGeometry : QueryGeometries, tileSize : TileSizes, scale : Scales,
     layers : LayerSets, filter : Filters, intersecting : Intersecting,
     symbolFeatures : SymbolResults, additionalQueryRadius : Radii,
     result0 : ResultInputs]

Init ==
    /\ tileData \in BOOLEAN
    /\ elements = <<>>
    /\ sortIndex = 0
    /\ bucketLayerIDs = NoMap
    /\ ringsInserted = 0
    /\ lastInsert = -1
    /\ pc = "idle"
    /\ args = NoArgs
    /\ additionalRadius = 0
    /\ box = NoBox
    /\ result = NoMap
    /\ threw = FALSE
    /\ resolved = <<>>

Next ==
    \/ \E i \in Ordinals, s \in SourceLayers, b \in Buckets :
           Insert(geometryOf(i), i, s, b)
    \/ \E b \in Buckets, ids \in LayerIDLists : SetBucketLayerIDs(b, ids)
    \/ \E q \in QueryInputs : Query(q)
    \/ Return

Spec == Init /\ [][Next]_vars

(***************************************************************************)
(* Vocabulary of the properties.                                           *)
(***************************************************************************)
Returned == pc = "returned"

\* The query went past the tile data check.
Ran == Returned /\ tileData

LayerIDs == {"L1", "L2", "L3"}

\* The result sequence of a layer, empty when the mapping has no such key.
seqOf(map, layerID) == IF layerID \in DOMAIN map THEN map[layerID] ELSE <<>>

\* The Features of a layer's sequence that one stream produced.
fromStream(layerID, from) ==
    SelectSeq(seqOf(result, layerID), LAMBDA x : x.from = from)

\* The positions of a layer's sequence holding the Feature of a resolved match.
positionsOf(layerID, c) ==
    {i \in 1..Len(seqOf(result, layerID)) :
        LET x == seqOf(result, layerID)[i]
        IN  /\ x.from = c.from
            /\ x.sortIndex = c.f.sortIndex
            /\ x.index = c.f.index
            /\ x.sourceLayerName = c.f.sourceLayerName}

\* The addFeature calls that got past the bucket lookup.
completedCalls ==
    {i \in 1..Len(resolved) : ~(threw /\ i = Len(resolved))}

activeLayers(layerID) ==
    {i \in 1..Len(args.layers) : args.layers[i].id = layerID}

isActive(layerID) == activeLayers(layerID) # {}

isSymbolLayer(layerID) ==
    \E i \in activeLayers(layerID) : args.layers[i].symbol

registered(bucketName) == bucketName \in DOMAIN bucketLayerIDs

\* How often a layer id occurs in the list registered for a bucket.
occurrences(layerID, bucketName) ==
    IF registered(bucketName)
    THEN Cardinality({i \in 1..Len(bucketLayerIDs[bucketName]) :
                         bucketLayerIDs[bucketName][i] = layerID})
    ELSE 0

intersects(f) == f.index \in args.intersecting
filterAccepts(f) == ~args.filter.present \/ f.index \in args.filter.accepts

\* The grid entries whose stored box overlaps the box of the query.
gridMatches == {i \in 1..Len(elements) : boxesIntersect(box, elements[i].bbox)}

insideBox(b) ==
    /\ box.min.x <= b.min.x /\ b.max.x <= box.max.x
    /\ box.min.y <= b.min.y /\ b.max.y <= box.max.y

\* How many Features one completed addFeature call for f appends to a layer.
passCount(layerID, f) ==
    IF /\ isActive(layerID)
       /\ isSymbolLayer(layerID) \/ intersects(f)
       /\ filterAccepts(f)
    THEN occurrences(layerID, f.bucketName)
    ELSE 0

\* How many completed addFeature calls were made for the same match.
multiplicity(c) == Cardinality({j \in completedCalls : resolved[j] = c})

gridCalls == {i \in 1..Len(resolved) : resolved[i].from = "grid"}
symbolCalls == {i \in 1..Len(resolved) : resolved[i].from = "symbol"}

(***************************************************************************)
(* C1: within each layer's result sequence the Features that come from     *)
(* grid matches are in strictly descending sort-index order and the        *)
(* Features that come from collision-index matches are in ascending        *)
(* sort-index order.                                                       *)
(***************************************************************************)
C1_StreamOrder ==
    Returned =>
        \A layerID \in DOMAIN result :
            LET g == fromStream(layerID, "grid")
                y == fromStream(layerID, "symbol")
            IN  /\ \A i, j \in 1..Len(g) : i < j => g[i].sortIndex > g[j].sortIndex
                /\ \A i, j \in 1..Len(y) : i < j => y[i].sortIndex <= y[j].sortIndex

\* Three grid matches and three symbol matches, given out of order, in one layer.
C1_Witness ==
    /\ Ran /\ ~threw
    /\ \E i, j \in 1..Len(args.symbolFeatures) :
           i < j /\ args.symbolFeatures[i].sortIndex > args.symbolFeatures[j].sortIndex
    /\ \E layerID \in DOMAIN result :
           /\ Len(fromStream(layerID, "grid")) >= 3
           /\ Len(fromStream(layerID, "symbol")) >= 3

C3_GridOnce ==
    Ran =>
        /\ \A i, j \in gridCalls :
               i # j => resolved[i].f.sortIndex # resolved[j].f.sortIndex
        /\ \A e \in 1..Len(elements) :
               insideBox(elements[e].bbox) =>
                   \/ \E i \in gridCalls : resolved[i].f = elements[e].t
                   \/ /\ threw
                      /\ resolved[Len(resolved)].from = "grid"
                      /\ resolved[Len(resolved)].f.sortIndex > elements[e].t.sortIndex

\* An entry spanning several cells lies inside the box and was resolved once.
C3_Witness ==
    /\ Ran /\ ~threw
    /\ Cardinality(gridCalls) >= 2
    /\ \E e \in 1..Len(elements) :
           /\ Cardinality(cellsOf(elements[e].bbox)) > 1
           /\ insideBox(elements[e].bbox)
           /\ Cardinality({i \in gridCalls : resolved[i].f = elements[e].t}) = 1

(***************************************************************************)
(* C4: for every additional query radius whose value in tile units         *)
(* exceeds EXTENT, values beyond the int16_t range included, the radius    *)
(* used is EXTENT and the box handed to the grid is the query envelope     *)
(* grown by EXTENT, no corner wrapped.                                     *)
(***************************************************************************)
C4_RadiusClamped ==
    (Ran /\ radiusInTileUnits(args) > EXTENT) =>
        LET b == envelope(args.queryGeometry)
        IN  /\ additionalRadius = EXTENT
            /\ box = [min |-> Point(b.min.x - EXTENT, b.min.y - EXTENT),
                      max |-> Point(b.max.x + EXTENT, b.max.y + EXTENT)]

(***************************************************************************)
(* C5: for a resolved subfeature whose bucket is mapped to L1..Ln, a       *)
(* Feature is appended to result[Li] for every Li that is active and       *)
(* passes its tests, and for every Li absent from the active layers        *)
(* nothing is appended, no key Li is created and no error is raised.       *)
(***************************************************************************)
C5_FanOut ==
    Ran =>
        /\ \A i \in completedCalls, layerID \in LayerIDs :
               LET c == resolved[i]
               IN  (/\ isActive(layerID)
                    /\ isSymbolLayer(layerID) \/ intersects(c.f)
                    /\ filterAccepts(c.f))
                   => Cardinality(positionsOf(layerID, c))
                          = multiplicity(c) * occurrences(layerID, c.f.bucketName)
        /\ \A layerID \in LayerIDs :
               ~isActive(layerID) =>
                   /\ seqOf(result, layerID) = seqOf(args.result0, layerID)
                   /\ layerID \in DOMAIN result <=> layerID \in DOMAIN args.result0
        /\ DOMAIN result \subseteq LayerIDs
        /\ threw => ~registered(resolved[Len(resolved)].f.bucketName)

\* One subfeature gave a Feature to L1 and to L2, and its bucket also names L3,
\* which is not active and has no key.
C5_Witness ==
    /\ Ran /\ ~threw
    /\ \E i \in completedCalls :
           /\ occurrences("L3", resolved[i].f.bucketName) > 0
           /\ positionsOf("L1", resolved[i]) # {}
           /\ positionsOf("L2", resolved[i]) # {}
           /\ ~isActive("L3")
           /\ "L3" \notin DOMAIN result

(***************************************************************************)
(* C6: when the index holds no tile data, query ends without error and     *)
(* adds nothing to the result mapping, whatever the grid holds, whatever   *)
(* layers are active and whatever the collision index returns.             *)
(***************************************************************************)
C6_NoTileData ==
    (Returned /\ ~tileData) =>
        /\ result = args.result0
        /\ ~threw
        /\ resolved = <<>>

\* A query without tile data, over a filled grid with layers and symbol hits.
C6_Witness ==
    /\ Returned /\ ~tileData
    /\ Len(elements) >= 2
    /\ Len(args.layers) >= 2
    /\ Len(args.symbolFeatures) >= 2
    /\ args.result0 # NoMap
    /\ \E e \in 1..Len(elements) :
           boxesIntersect(envelope(args.queryGeometry), elements[e].bbox)

(***************************************************************************)
(* C7: after any sequence of insert calls every ring has its own grid      *)
(* entry, the sort indices of the entries are pairwise distinct and        *)
(* strictly increase in insertion order, and the counter has advanced by   *)
(* the total number of rings; an insert of no rings changes neither.       *)
(***************************************************************************)
C7_InsertCounter ==
    /\ Len(elements) = ringsInserted
    /\ sortIndex = ringsInserted
    /\ \A i, j \in 1..Len(elements) :
           i < j => elements[i].t.sortIndex < elements[j].t.sortIndex
    /\ \A i \in 1..Len(elements) : elements[i].t.sortIndex < sortIndex

\* Three rings were inserted by more than one call, the latest call had no rings.
C7_Witness ==
    /\ lastInsert = 0
    /\ ringsInserted = 3
    /\ elements[1].t.bucketName # elements[2].t.bucketName
    /\ elements[2].t.bucketName = elements[3].t.bucketName
    /\ elements[2].bbox # elements[3].bbox

(***************************************************************************)
(* C8: a query over an index with tile data fails with the bucket lookup   *)
(* error iff some grid match or some collision-index match names a         *)
(* bucket never registered, also when no layer is active; the Features     *)
(* appended for the matches resolved before stay in the mapping; with      *)
(* every bucket of insert and of the collision index registered the        *)
(* query does not fail.                                                    *)
(***************************************************************************)
C8_BucketLookup ==
    Ran =>
        /\ threw <=>
               \/ \E e \in gridMatches : ~registered(elements[e].t.bucketName)
               \/ \E i \in 1..Len(args.symbolFeatures) :
                      ~registered(args.symbolFeatures[i].bucketName)
        /\ threw =>
               /\ \A i \in completedCalls, layerID \in LayerIDs :
                      Cardinality(positionsOf(layerID, resolved[i]))
                          = multiplicity(resolved[i]) * passCount(layerID, resolved[i].f)
               /\ \A layerID \in DOMAIN args.result0 :
                      /\ layerID \in DOMAIN result
                      /\ SubSeq(result[layerID], 1, Len(args.result0[layerID]))
                             = args.result0[layerID]
        /\ (/\ \A e \in 1..Len(elements) : registered(elements[e].t.bucketName)
            /\ \A i \in 1..Len(args.symbolFeatures) :
                   registered(args.symbolFeatures[i].bucketName))
           => ~threw

\* A query failed on an unregistered bucket after it had appended a Feature.
C8_Witness ==
    /\ Ran /\ threw
    /\ ~registered(resolved[Len(resolved)].f.bucketName)
    /\ \E i \in completedCalls, layerID \in DOMAIN result :
           positionsOf(layerID, resolved[i]) # {}

(***************************************************************************)
(* C9: addFeature applies the intersection test exactly to the active      *)
(* layers that are not symbol layers and the filter, when present, to      *)
(* every active layer: a symbol layer gets a Feature iff the filter is     *)
(* absent or accepts, from either stream; a non-symbol layer only if the   *)
(* intersection test succeeds as well.                                     *)
(***************************************************************************)
C9_LayerTests ==
    Ran =>
        \A i \in completedCalls, layerID \in LayerIDs :
            LET c == resolved[i]
            IN  (isActive(layerID) /\ occurrences(layerID, c.f.bucketName) > 0) =>
                    (positionsOf(layerID, c) # {}
                        <=> /\ isSymbolLayer(layerID) \/ intersects(c.f)
                            /\ filterAccepts(c.f))

\* With a filter present, a grid match that fails the intersection test is in the
\* symbol layer L2 and not in the fill layer L1.
C9_Witness ==
    /\ Ran /\ ~threw
    /\ args.filter.present
    /\ \E i \in completedCalls :
           LET c == resolved[i]
           IN  /\ c.from = "grid"
               /\ ~intersects(c.f)
               /\ isActive("L1") /\ ~isSymbolLayer("L1")
               /\ occurrences("L1", c.f.bucketName) > 0
               /\ positionsOf("L1", c) = {}
               /\ isSymbolLayer("L2")
               /\ positionsOf("L2", c) # {}

(***************************************************************************)
(* C10: the two streams are concatenated: in every layer's sequence the    *)
(* Features of grid matches precede the Features of collision-index        *)
(* matches, and neither stream suppresses an entry of the other: a         *)
(* subfeature returned by both with one sort index is appended to a        *)
(* passing layer twice.                                                    *)
(***************************************************************************)
streamRank(x) == CASE x.from = "prior" -> 0 [] x.from = "grid" -> 1 [] OTHER -> 2

C10_Concatenation ==
    Returned =>
        /\ \A layerID \in DOMAIN result :
               \A i, j \in 1..Len(result[layerID]) :
                   i < j => streamRank(result[layerID][i]) <= streamRank(result[layerID][j])
        /\ (tileData /\ ~threw) =>
               \A e \in gridMatches, k \in 1..Len(args.symbolFeatures),
                  layerID \in LayerIDs :
                   LET g == elements[e].t
                       y == args.symbolFeatures[k]
                   IN  (/\ g.sortIndex = y.sortIndex
                        /\ passCount(layerID, g) > 0
                        /\ passCount(layerID, y) > 0)
                       => /\ positionsOf(layerID, [f |-> g, from |-> "grid"]) # {}
                          /\ positionsOf(layerID, [f |-> y, from |-> "symbol"]) # {}

\* One subfeature came from the grid and from the collision index and is in a
\* layer twice, the grid's Feature first.
C10_Witness ==
    /\ Ran /\ ~threw
    /\ \E layerID \in DOMAIN result :
           \E i, j \in 1..Len(result[layerID]) :
               LET a == result[layerID][i]
                   b == result[layerID][j]
               IN  /\ i < j
                   /\ a.from = "grid" /\ b.from = "symbol"
                   /\ a.sortIndex = b.sortIndex
                   /\ a.index = b.index

====
